---- MODULE Spec2Model ----
(***************************************************************************)
(* Job manager of the geospatial conversion service: quota accounting and  *)
(* submission (api/v1/convert.py), the Celery worker convert_file with its *)
(* retries and redelivery, the cleanup task (workers/conversion_tasks.py)  *)
(* and the storage backend (core/storage.py).                              *)
(*                                                                         *)
(* Nullable columns hold <<>> (NULL) or <<v>>.  Timestamps count hours;    *)
(* strings the code inspects are sequences of one-character strings.       *)
(***************************************************************************)
EXTENDS Integers, Sequences, FiniteSets, TLC

\* ---------------------------------------------------------------- bounds
MaxRequests == 2
MaxDays == 2
MaxCrashes == 1
MaxPathLen == 3
MaxRows == 4
MaxCols == 3

\* ------------------------------------------------------ program constants
\* PLAN_LIMITS[PlanType.FREE] .. [PlanType.ENTERPRISE]
FREE_LIMIT == 5
STARTER_LIMIT == 100
PRO_LIMIT == 1000
UNLIMITED == 0 - 1
\* @celery_app.task(max_retries=2)
max_retries == 2
\* timedelta(hours=24); timestamps count hours
DOWNLOAD_TTL == 24
\* error[:2000]
ERROR_MESSAGE_MAX == 2000

\* The clock is observed in steps of one download TTL, up to MaxDays steps.
ClockStep == DOWNLOAD_TTL
MaxTime == MaxDays * ClockStep

NULL == <<>>
Some(v) == <<v>>
Val(o) == o[1]

Requests == 1..MaxRequests
\* A request's job gets a fresh uuid4: the request's own number stands for it.
JobIds == Requests

\* alice is on the free plan, bob on enterprise, carol has no subscription.
Users == {"alice", "bob", "carol"}

PLAN_LIMITS ==
    [p \in {"free", "starter", "pro", "enterprise"} |->
        CASE p = "free" -> FREE_LIMIT
          [] p = "starter" -> STARTER_LIMIT
          [] p = "pro" -> PRO_LIMIT
          [] p = "enterprise" -> UNLIMITED]

\* PLAN_LIMITS.get(sub.plan, 5)
PlanLimit(plan) == IF plan \in DOMAIN PLAN_LIMITS THEN PLAN_LIMITS[plan] ELSE FREE_LIMIT

\* ---------------------------------------------------------------- strings
UPPER == <<"A","B","C","D","E","F","G","H","I","J","K","L","M",
           "N","O","P","Q","R","S","T","U","V","W","X","Y","Z">>
LOWER == <<"a","b","c","d","e","f","g","h","i","j","k","l","m",
           "n","o","p","q","r","s","t","u","v","w","x","y","z">>

\* str.lower(), character by character
LowerChar(c) ==
    IF \E i \in 1..Len(UPPER) : UPPER[i] = c
    THEN LOWER[CHOOSE i \in 1..Len(UPPER) : UPPER[i] = c]
    ELSE c
Lower(s) == [i \in 1..Len(s) |-> LowerChar(s[i])]

\* sub in s
Contains(sub, s) ==
    \E i \in 1..(Len(s) - Len(sub) + 1) : SubSeq(s, i, i + Len(sub) - 1) = sub

\* s[:n]
Truncate(s, n) == SubSeq(s, 1, IF Len(s) < n THEN Len(s) ELSE n)

STR_Connection == <<"C","o","n","n","e","c","t","i","o","n">>
STR_timeout == <<"t","i","m","e","o","u","t">>

\* Messages of the exceptions the pipeline raises in the model.
MSG_ConnectionReset == <<"C","o","n","n","e","c","t","i","o","n"," ","r","e","s","e","t">>
MSG_connection_refused == <<"c","o","n","n","e","c","t","i","o","n"," ","r","e","f","u","s","e","d">>
MSG_ReadTimeout == <<"R","e","a","d"," ","T","i","m","e","o","u","t">>
MSG_InvalidFile == <<"i","n","v","a","l","i","d"," ","f","i","l","e">>
\* FileNotFoundError raised by os.path.getsize once the local output is removed
MSG_NoSuchFile == <<"[","E","r","r","n","o"," ","2","]"," ","N","o"," ","s","u","c","h"," ","f","i","l","e">>
\* the message _mark_failed gets on SoftTimeLimitExceeded
MSG_SoftTimeLimit == <<"T","i","m","e","o","u","t"," ","d","é","p","a","s","s","é">>

\* s.startswith(prefix), s.endswith(suffix)
StartsWith(prefix, s) ==
    Len(prefix) <= Len(s) /\ SubSeq(s, 1, Len(prefix)) = prefix
EndsWith(suffix, s) ==
    Len(suffix) <= Len(s) /\ SubSeq(s, Len(s) - Len(suffix) + 1, Len(s)) = suffix

STR_s3 == <<"s","3",":","/","/">>
STR_zip == <<".","z","i","p">>

\* input_storage_path of an upload: a plain file or an archive, saved by the
\* local backend or by the object store
IN_local_shp == <<"/","u","/","a",".","s","h","p">>
IN_local_zip == <<"/","u","/","a",".","Z","I","P">>
IN_s3_shp == <<"s","3",":","/","/","b","/","a",".","s","h","p">>
IN_s3_zip == <<"s","3",":","/","/","b","/","a",".","z","i","p">>

\* what storage.save returned for the upload under each backend
InputPaths(b) ==
    IF b = "local" THEN {IN_local_shp, IN_local_zip} ELSE {IN_s3_shp, IN_s3_zip}
\* a plain file only
PlainInputPaths(b) == IF b = "local" THEN {IN_local_shp} ELSE {IN_s3_shp}

ExceptionMessages ==
    {MSG_ConnectionReset, MSG_connection_refused, MSG_ReadTimeout, MSG_InvalidFile}

\* "Connection" in str(exc) or "timeout" in str(exc).lower()
IsTransient_Always(msg) == TRUE
IsTransient(msg) ==
    Contains(STR_Connection, msg) \/ Contains(STR_timeout, Lower(msg))

\* ------------------------------------------------------ ConversionRequest
\* valid = ["GeoJSON", "ESRI Shapefile", "GPKG", ...] in validate_format
VALID_FORMATS ==
    {"GeoJSON", "ESRI Shapefile", "GPKG", "KML", "DXF", "CSV", "FlatGeobuf", "OpenFileGDB"}
\* v < 1024 or v > 32767 in validate_epsg
EPSG_MIN == 1024
EPSG_MAX == 32767

\* the pydantic validators of ConversionRequest: output_format and
\* target_epsg have one, encoding and storage_path are plain str fields
ValidEpsg(v) == v = NULL \/ ~(Val(v) < EPSG_MIN \/ Val(v) > EPSG_MAX)
Validates(payload) ==
    /\ payload.output_format \in VALID_FORMATS
    /\ ValidEpsg(payload.target_epsg)

\* A body that passes: uploaded_by is the user whose upload_file call
\* returned storage_path ("-": no upload returned that path); nothing in the
\* database or in the path records it.
DefaultPayload(storage_path) ==
    [storage_path |-> storage_path, uploaded_by |-> "alice",
     output_format |-> "GeoJSON", target_epsg |-> NULL, encoding |-> "UTF-8"]

\* the bodies a client may send for storage_path
Payloads(storage_path) ==
    [storage_path : {storage_path},
     uploaded_by : {"alice", "bob", "-"},
     output_format : {"GeoJSON", "PDF"},
     target_epsg : {NULL, Some(EPSG_MIN - 1), Some(EPSG_MIN), Some(EPSG_MAX),
                    Some(EPSG_MAX + 1)},
     encoding : {"UTF-8", "latin-1", "cp1252"}]

\* ------------------------------------------------------------------ state
VARIABLES
    subs,       \* subscriptions: user -> [plan, conversions_used_this_month]
    jobs,       \* committed conversion_jobs rows: job id -> row
    req,        \* create_conversion_job requests: position and locals
    task,       \* the convert_file message of each job: state and retries
    blobs,      \* paths that exist in the storage backend
    now,        \* datetime.utcnow()
    backend,    \* settings.STORAGE_BACKEND
    used0,      \* conversions_used_this_month at the start (history)
    starts,     \* executions of convert_file started per job (history)
    crashes,    \* worker losses per job (history)
    temps,      \* temporary files and directories on the worker's disk
    resp,       \* the last answer of get_download_url
    call,       \* the last call of StorageBackend.get_url
    payloads,   \* the ConversionRequest body of each request
    served,     \* the last answer of serve_local_file
    run         \* the last run of a processor component

vars == <<subs, jobs, req, task, blobs, now, backend, used0, starts, crashes,
          temps, resp, call, payloads, served, run>>


SubscribedUsers == {"alice", "bob"}
PlanOf(u) == IF u = "alice" THEN "free" ELSE "enterprise"
\* conversions_used_this_month of the free-plan user at the start: one
\* conversion is left in the period
InitialUsed == {FREE_LIMIT - 1}

\* a conversion_jobs row that was never committed
NoRow ==
    [status |-> "absent", user_id |-> "-", started_at |-> NULL,
     completed_at |-> NULL, output_storage_path |-> NULL,
     download_expires_at |-> NULL, error_message |-> NULL,
     input_storage_path |-> NULL]

RowExists(j) == jobs[j].status # "absent"

\* no convert_file message was sent; outcome is how the last execution
\* left the task body: "returned", "retry" (celery Retry raised) or
\* "raised" (the exception itself re-raised)
NoTask == [state |-> "none", retries |-> 0, outcome |-> "-"]
\* no request was answered yet, no get_url call was made yet
NoResp == [user |-> "-", job |-> 0, code |-> 0, url |-> NULL]
NoCall == [backend |-> "-", path |-> <<>>, url |-> NULL]
NoServed == [user |-> "-", path |-> <<>>, code |-> 0]
NoRun == [component |-> "-"]

\* everything but the request bodies
InitService ==
    /\ \E n \in InitialUsed :
         /\ subs = [u \in SubscribedUsers |->
                      [plan |-> PlanOf(u),
                       conversions_used_this_month |-> IF u = "alice" THEN n ELSE 0]]
         /\ used0 = [u \in SubscribedUsers |-> IF u = "alice" THEN n ELSE 0]
    /\ jobs = [j \in JobIds |-> NoRow]
    /\ req = [r \in Requests |-> [pc |-> "idle", user |-> "-", used |-> 0]]
    /\ task = [j \in JobIds |-> NoTask]
    /\ blobs = {}
    /\ now = 0
    /\ backend \in {"local", "s3"}
    /\ starts = [j \in JobIds |-> 0]
    /\ crashes = [j \in JobIds |-> 0]
    /\ temps = {}
    /\ resp = NoResp
    /\ call = NoCall
    /\ served = NoServed
    /\ run = NoRun

\* Spec starts idle; every request will carry a valid body naming a plain file.
Init ==
    /\ InitService
    /\ \E p \in PlainInputPaths(backend) : payloads = [r \in Requests |-> DefaultPayload(p)]

\* ------------------------------------------------- create_conversion_job
\* limit != -1 and sub.conversions_used_this_month >= limit
QuotaReached_Gt(limit, used) == limit # UNLIMITED /\ used > limit
QuotaReached(limit, used) == limit # UNLIMITED /\ used >= limit

\* The request arrives: 422 when the body fails a validator of
\* ConversionRequest; then check_quota: 402 without a subscription, 429 at
\* the limit, else the subscription is loaded into the request's session.
check_quota(r, u) ==
    /\ req[r].pc = "idle"
    /\ \A q \in Requests : q < r => req[q].pc # "idle"   \* numbered by arrival
    /\ IF ~Validates(payloads[r])
       THEN req' = [req EXCEPT ![r] = [pc |-> "http422", user |-> u, used |-> 0]]
       ELSE IF u \notin DOMAIN subs
       THEN req' = [req EXCEPT ![r] = [pc |-> "http402", user |-> u, used |-> 0]]
       ELSE IF QuotaReached(PlanLimit(subs[u].plan), subs[u].conversions_used_this_month)
       THEN req' = [req EXCEPT ![r] = [pc |-> "http429", user |-> u, used |-> 0]]
       ELSE req' = [req EXCEPT ![r] =
                      [pc |-> "checked", user |-> u,
                       used |-> subs[u].conversions_used_this_month]]
    /\ UNCHANGED <<subs, jobs, task, blobs, now, backend, used0, starts, crashes, temps, resp, call, payloads, served, run>>

\* db.add(job); await db.flush(); convert_file.apply_async(task_id=job.id):
\* the row is inserted in the open transaction (not yet visible to others)
\* and the message is already on the queue.
dispatch(r) ==
    /\ req[r].pc = "checked"
    /\ task' = [task EXCEPT ![r] = [NoTask EXCEPT !.state = "queued"]]
    /\ req' = [req EXCEPT ![r].pc = "dispatched"]
    /\ UNCHANGED <<subs, jobs, blobs, now, backend, used0, starts, crashes, temps, resp, call, payloads, served, run>>

\* ConversionJob(user_id=current_user.id, input_storage_path=payload.storage_path)
NewJob(u, storage_path) ==
    [NoRow EXCEPT !.status = "pending", !.user_id = u,
                  !.input_storage_path = Some(storage_path)]

\* sub.conversions_used_this_month += 1 on the value this session loaded
IncrementUsed(sub, loaded) == [sub EXCEPT !.conversions_used_this_month = loaded + 1]

\* await db.commit(): the job row and the counter become visible together.
\* storage_path is the request's payload.storage_path, first seen by others here.
commit_job(r, storage_path) ==
    /\ req[r].pc = "dispatched"
    /\ jobs' = [jobs EXCEPT ![r] = NewJob(req[r].user, storage_path)]
    /\ subs' = [subs EXCEPT ![req[r].user] = IncrementUsed(@, req[r].used)]
    /\ req' = [req EXCEPT ![r].pc = "accepted"]
    /\ UNCHANGED <<task, blobs, now, backend, used0, starts, crashes, temps, resp, call, payloads, served, run>>

\* ----------------------------------------------------------- convert_file
\* job.status = PROCESSING; job.started_at = utcnow()
MarkProcessing_NoStart(job, t) == [job EXCEPT !.status = "processing"]
MarkProcessing(job, t) ==
    [job EXCEPT !.status = "processing", !.started_at = Some(t)]

_mark_failed_KeepStatus(job, error, t) ==
    [job EXCEPT !.completed_at = Some(t),
                !.error_message = Some(Truncate(error, ERROR_MESSAGE_MAX))]
_mark_failed(job, error, t) ==
    [job EXCEPT !.status = "failed",
                !.completed_at = Some(t),
                !.error_message = Some(Truncate(error, ERROR_MESSAGE_MAX))]

\* the success branch: t1 and t2 are the two utcnow() reads
MarkSuccess(job, path, t1, t2) ==
    [job EXCEPT !.status = "success",
                !.completed_at = Some(t1),
                !.output_storage_path = Some(path),
                !.download_expires_at = Some(t2 + DOWNLOAD_TTL)]

\* the output of one execution: tempfile.mktemp / uuid4 names are fresh
OutputBlob(j) == <<backend, j, starts[j]>>

\* the statements of the try block, in program order
TRY_STAGES ==
    <<"update_state_10", "_resolve_input_path", "update_state_30",
      "process", "update_state_80", "_store_output">>
Stages == {TRY_STAGES[i] : i \in 1..Len(TRY_STAGES)}
StageNo(st) == CHOOSE i \in 1..Len(TRY_STAGES) : TRY_STAGES[i] = st
\* the three current_task.update_state calls
ProgressStages == {"update_state_10", "update_state_30", "update_state_80"}
\* the stage an execution is cut at when only failures inside the processor,
\* before the output is written, are considered
ProcessorStages == {"process"}

\* "." + storage_path.split(".")[-1]
LastDot(s) == CHOOSE i \in 1..Len(s) :
                 s[i] = "." /\ \A k \in (i + 1)..Len(s) : s[k] # "."
Suffix(s) == SubSeq(s, LastDot(s), Len(s))
STR_tmp == <<"/","t","m","p","/","x">>

\* _resolve_input_path: an s3:// input is copied to a NamedTemporaryFile
\* (delete=False) that keeps the suffix; any other path is used as it is
IsStaged(storage_path) == StartsWith(STR_s3, storage_path)
ResolveInputPath(storage_path) ==
    IF IsStaged(storage_path) THEN STR_tmp \o Suffix(storage_path) ELSE storage_path

\* _extract_if_zip: path.lower().endswith(".zip") extracts into a mkdtemp directory
IsZip(path) == EndsWith(STR_zip, Lower(path))

\* What execution starts[j] of job j has left on the worker's disk when it
\* stops at stage st: the staged copy once _resolve_input_path returned, the
\* extraction directory once process has begun.  Nothing removes either.
TempsOf(j, st) ==
    LET storage_path == Val(jobs[j].input_storage_path)
        staged ==
            IF IsStaged(storage_path) /\ StageNo(st) > StageNo("_resolve_input_path")
            THEN {<<"staged", j, starts[j]>>} ELSE {}
        extracted ==
            IF IsZip(ResolveInputPath(storage_path)) /\ StageNo(st) >= StageNo("process")
            THEN {<<"extracted", j, starts[j]>>} ELSE {}
    IN staged \cup extracted

\* Whether the output of the execution is in the storage backend (wrote) when
\* the execution stops at stage st.  Local backend: _write_file, inside
\* process, creates the file that _store_output returns unchanged.  s3 and
\* minio: storage.save, inside _store_output, uploads it.
CanHaveWritten(st, wrote) ==
    IF backend = "local"
    THEN /\ wrote => StageNo(st) >= StageNo("process")
         /\ StageNo(st) > StageNo("process") => wrote
    ELSE wrote => st = "_store_output"

StoredBy(j, wrote) == IF wrote THEN blobs \cup {OutputBlob(j)} ELSE blobs

\* A worker takes the message: the row is looked up, marked processing and
\* committed; without a row the task returns and the message is acknowledged.
convert_start(j) ==
    /\ task[j].state = "queued"
    /\ starts' = [starts EXCEPT ![j] = @ + 1]
    /\ IF ~RowExists(j)
       THEN /\ task' = [task EXCEPT ![j].state = "done", ![j].outcome = "returned"]
            /\ jobs' = jobs
       ELSE /\ task' = [task EXCEPT ![j].state = "running"]
            /\ jobs' = [jobs EXCEPT ![j] = MarkProcessing(@, now)]
    /\ UNCHANGED <<subs, req, blobs, now, backend, used0, crashes, temps, resp, call, payloads, served, run>>

\* self.retry(exc=exc): a new message while request.retries < max_retries
\* (Retry is raised), else the exception itself is re-raised and the task ends.
Retry(t) ==
    IF t.retries < max_retries
    THEN [state |-> "queued", retries |-> t.retries + 1, outcome |-> "retry"]
    ELSE [t EXCEPT !.state = "done", !.outcome = "raised"]

\* the task body returns a dict
Return(t) == [t EXCEPT !.state = "done", !.outcome = "returned"]

\* except Exception: _mark_failed, then raise self.retry on a transient
\* message, else return
FailWith(j, msg) ==
    /\ jobs' = [jobs EXCEPT ![j] = _mark_failed(@, msg, now)]
    /\ task' = [task EXCEPT ![j] = IF IsTransient(msg) THEN Retry(@) ELSE Return(@)]

\* The processor returned a result.  _store_output keeps the local file
\* (local backend) or uploads it and removes the local file (s3, minio);
\* os.path.getsize(result.output_path) then reads the local file.
convert_finish(j) ==
    /\ task[j].state = "running"
    /\ blobs' = blobs \cup {OutputBlob(j)}
    /\ temps' = temps \cup TempsOf(j, "_store_output")
    /\ IF backend = "local"
       THEN \E t2 \in {now, IF now < MaxTime THEN now + ClockStep ELSE now} :
              /\ jobs' = [jobs EXCEPT ![j] = MarkSuccess(@, OutputBlob(j), now, t2)]
              /\ task' = [task EXCEPT ![j] = Return(@)]
              /\ now' = t2
       ELSE /\ FailWith(j, MSG_NoSuchFile)
            /\ now' = now
    /\ UNCHANGED <<subs, req, backend, used0, starts, crashes, resp, call, payloads, served, run>>

\* An exception with message msg is raised at stage st of the try block.
convert_error(j, msg, st, wrote) ==
    /\ task[j].state = "running"
    /\ CanHaveWritten(st, wrote)
    /\ FailWith(j, msg)
    /\ blobs' = StoredBy(j, wrote)
    /\ temps' = temps \cup TempsOf(j, st)
    /\ UNCHANGED <<subs, req, now, backend, used0, starts, crashes, resp, call, payloads, served, run>>

\* except SoftTimeLimitExceeded: _mark_failed and return, never a retry.
\* The signal arrives at whatever stage the execution is in.
convert_soft_timeout(j, st, wrote) ==
    /\ task[j].state = "running"
    /\ CanHaveWritten(st, wrote)
    /\ jobs' = [jobs EXCEPT ![j] = _mark_failed(@, MSG_SoftTimeLimit, now)]
    /\ task' = [task EXCEPT ![j] = Return(@)]
    /\ blobs' = StoredBy(j, wrote)
    /\ temps' = temps \cup TempsOf(j, st)
    /\ UNCHANGED <<subs, req, now, backend, used0, starts, crashes, resp, call, payloads, served, run>>

RECURSIVE SumUpTo(_, _)
SumUpTo(f, n) == IF n = 0 THEN 0 ELSE f[n] + SumUpTo(f, n - 1)

\* acks_late with task_reject_on_worker_lost: the worker dies at stage st
\* and the unacknowledged message goes back to the queue.
worker_lost(j, st, wrote) ==
    /\ task[j].state = "running"
    /\ CanHaveWritten(st, wrote)
    /\ SumUpTo(crashes, MaxRequests) < MaxCrashes
    /\ crashes' = [crashes EXCEPT ![j] = @ + 1]
    /\ task' = [task EXCEPT ![j].state = "queued"]
    /\ blobs' = StoredBy(j, wrote)
    /\ temps' = temps \cup TempsOf(j, st)
    /\ UNCHANGED <<subs, jobs, req, now, backend, used0, starts, resp, call, payloads, served, run>>

\* -------------------------------------------------- cleanup_expired_files
\* download_expires_at < utcnow(), output_storage_path IS NOT NULL, status = SUCCESS
IsExpiredJob_NoExpiry(job, t) ==
    /\ job.output_storage_path # NULL
    /\ job.status = "success"
MarkExpired_KeepPath(job) == [job EXCEPT !.status = "expired"]
IsExpiredJob(job, t) ==
    /\ job.download_expires_at # NULL
    /\ Val(job.download_expires_at) < t
    /\ job.output_storage_path # NULL
    /\ job.status = "success"

expired_jobs == {j \in JobIds : IsExpiredJob(jobs[j], now)}

\* job.output_storage_path = None; job.status = EXPIRED
MarkExpired(job) == [job EXCEPT !.output_storage_path = NULL, !.status = "expired"]

\* storage.delete raises for the jobs in failed (swallowed by except: pass);
\* for the others the blob is removed and the row updated; one commit.
cleanup_expired_files ==
    \E failed \in SUBSET expired_jobs :
        /\ blobs' = blobs \ {Val(jobs[j].output_storage_path) : j \in expired_jobs \ failed}
        /\ jobs' = [j \in JobIds |->
                      IF j \in expired_jobs \ failed THEN MarkExpired(jobs[j]) ELSE jobs[j]]
        /\ UNCHANGED <<subs, req, task, now, backend, used0, starts, crashes, temps, resp, call, payloads, served, run>>

\* ------------------------------------------------------------------ clock
Tick ==
    /\ now < MaxTime
    /\ now' = now + ClockStep
    /\ UNCHANGED <<subs, jobs, req, task, blobs, backend, used0, starts, crashes, temps, resp, call, payloads, served, run>>

\* Spec: the whole service, with plain (not archived) inputs and executions
\* that fail, time out or die inside the processor before the output exists.
Next ==
    \/ \E r \in Requests, u \in Users : check_quota(r, u)
    \/ \E r \in Requests : dispatch(r)
    \/ \E r \in Requests : commit_job(r, payloads[r].storage_path)
    \/ \E j \in JobIds : convert_start(j)
    \/ \E j \in JobIds : convert_finish(j)
    \/ \E j \in JobIds, msg \in ExceptionMessages, st \in ProcessorStages :
         convert_error(j, msg, st, FALSE)
    \/ \E j \in JobIds, st \in ProcessorStages : convert_soft_timeout(j, st, FALSE)
    \/ \E j \in JobIds, st \in ProcessorStages : worker_lost(j, st, FALSE)
    \/ cleanup_expired_files
    \/ Tick

Spec == Init /\ [][Next]_vars

\* ----------------------------------------------------------- submit alone
\* The first request carries any body a client may send, the others a valid
\* one; requests are received, dispatched and committed, and a worker may
\* take a message.
InitSubmit ==
    /\ InitService
    /\ \E p \in PlainInputPaths(backend) :
         \E first \in Payloads(p) :
             payloads = [r \in Requests |-> IF r = 1 THEN first ELSE DefaultPayload(p)]

NextSubmit ==
    \/ \E r \in Requests, u \in Users : check_quota(r, u)
    \/ \E r \in Requests : dispatch(r)
    \/ \E r \in Requests : commit_job(r, payloads[r].storage_path)
    \/ \E j \in JobIds : convert_start(j)

SpecSubmit == InitSubmit /\ [][NextSubmit]_vars

\* ---------------------------------------------------------- the worker alone
\* The first request was accepted (alice used her last conversion) and its
\* message is on the queue; no other request arrives.
InitWorker ==
    /\ backend \in {"local", "s3"}
    /\ \E n \in InitialUsed :
         /\ used0 = [u \in SubscribedUsers |-> IF u = "alice" THEN n ELSE 0]
         /\ subs = [u \in SubscribedUsers |->
                      [plan |-> PlanOf(u),
                       conversions_used_this_month |-> IF u = "alice" THEN n + 1 ELSE 0]]
         /\ req = [r \in Requests |->
                     IF r = 1 THEN [pc |-> "accepted", user |-> "alice", used |-> n]
                     ELSE [pc |-> "idle", user |-> "-", used |-> 0]]
    /\ \E p \in InputPaths(backend) :
         jobs = [j \in JobIds |-> IF j = 1 THEN NewJob("alice", p) ELSE NoRow]
    /\ task = [j \in JobIds |-> IF j = 1 THEN [NoTask EXCEPT !.state = "queued"] ELSE NoTask]
    /\ blobs = {}
    /\ now = 0
    /\ starts = [j \in JobIds |-> 0]
    /\ crashes = [j \in JobIds |-> 0]
    /\ temps = {}
    /\ resp = NoResp
    /\ call = NoCall
    /\ payloads = [r \in Requests |-> DefaultPayload(Val(jobs[1].input_storage_path))]
    /\ served = NoServed
    /\ run = NoRun

\* convert_file with every stage an execution can stop at
NextWorker ==
    \/ \E j \in JobIds : convert_start(j)
    \/ \E j \in JobIds : convert_finish(j)
    \/ \E j \in JobIds, msg \in ExceptionMessages, st \in Stages, wrote \in BOOLEAN :
         convert_error(j, msg, st, wrote)
    \/ \E j \in JobIds, st \in Stages, wrote \in BOOLEAN :
         convert_soft_timeout(j, st, wrote)
    \/ \E j \in JobIds, st \in Stages, wrote \in BOOLEAN : worker_lost(j, st, wrote)
    \/ cleanup_expired_files
    \/ Tick

SpecWorker == InitWorker /\ [][NextWorker]_vars

\* ---------------------------------------------------------------- storage
\* the text of an output_storage_path: a file under OUTPUT_DIR, or
\* s3://bucket/key, named after the execution that wrote it
DIGITS == <<"1","2","3","4","5","6","7","8","9">>
STR_output_dir == <<"/","o","/">>
STR_output_bucket == <<"s","3",":","/","/","o","/">>
StoragePath(blob) ==
    (IF blob[1] = "local" THEN STR_output_dir ELSE STR_output_bucket)
        \o <<DIGITS[blob[2]], "_", DIGITS[blob[3]]>>

\* storage_path.replace("s3://", "")
RECURSIVE ReplaceS3(_)
ReplaceS3(s) ==
    IF Len(s) = 0 THEN <<>>
    ELSE IF StartsWith(STR_s3, s) THEN ReplaceS3(SubSeq(s, Len(STR_s3) + 1, Len(s)))
    ELSE <<Head(s)>> \o ReplaceS3(Tail(s))

\* .split("/", 1): one part without a slash, else the text before and after
\* the first slash
SplitOnce(s) ==
    IF \E i \in 1..Len(s) : s[i] = "/"
    THEN LET i == CHOOSE k \in 1..Len(s) : s[k] = "/" /\ \A m \in 1..(k - 1) : s[m] # "/"
         IN <<SubSeq(s, 1, i - 1), SubSeq(s, i + 1, Len(s))>>
    ELSE <<s>>

STR_file_url == <<"/","a","p","i","/","v","1","/","d","o","w","n","l","o","a","d",
                  "/","f","i","l","e","?","p","a","t","h","=">>

\* LocalStorage.get_url: the path behind the file endpoint, expires_in unused
LocalGetUrl(storage_path, expires_in) ==
    Some([text |-> STR_file_url \o storage_path, bucket |-> <<>>, key |-> <<>>,
          expires_in |-> NULL])

\* S3Storage.get_url: bucket and key cut out of the path and presigned;
\* parts[1] raises IndexError when the path has one part only, and
\* generate_presigned_url validates its parameters: an empty Bucket or Key
\* raises
S3GetUrl(storage_path, expires_in) ==
    LET parts == SplitOnce(ReplaceS3(storage_path)) IN
    IF Len(parts) < Len(<<"bucket", "key">>)
    THEN NULL
    ELSE IF parts[1] = <<>> \/ parts[1 + 1] = <<>>
    THEN NULL
    ELSE Some([text |-> <<>>, bucket |-> parts[1], key |-> parts[1 + 1],
               expires_in |-> Some(expires_in)])

\* get_storage().get_url(storage_path, expires_in)
GetUrl(b, storage_path, expires_in) ==
    IF b = "s3" THEN S3GetUrl(storage_path, expires_in)
    ELSE LocalGetUrl(storage_path, expires_in)

\* --------------------------------------------------------- get_download_url
\* storage.get_url(job.output_storage_path, expires_in=3600)
URL_EXPIRES_IN == 3600

\* select(ConversionJob).where(id == job_id, user_id == current_user.id)
FindJob_AnyOwner(u, job_id) ==
    IF job_id \in JobIds /\ RowExists(job_id)
    THEN Some(jobs[job_id]) ELSE NULL
FindJob(u, job_id) ==
    IF job_id \in JobIds /\ RowExists(job_id) /\ jobs[job_id].user_id = u
    THEN Some(jobs[job_id]) ELSE NULL

\* job.download_expires_at and job.download_expires_at < datetime.utcnow()
DownloadExpired_Never(job, t) == t < t
DownloadExpired(job, t) ==
    job.download_expires_at # NULL /\ Val(job.download_expires_at) < t

\* the answer: an HTTP status and, with 200, the download_url
Answer(u, job_id) ==
    LET found == FindJob(u, job_id) IN
    IF found = NULL THEN [code |-> 404, url |-> NULL]
    ELSE LET job == Val(found) IN
         IF job.status # "success" THEN [code |-> 400, url |-> NULL]
         ELSE IF job.output_storage_path = NULL THEN [code |-> 404, url |-> NULL]
         ELSE IF DownloadExpired(job, now) THEN [code |-> 410, url |-> NULL]
         ELSE LET url == GetUrl(backend, StoragePath(Val(job.output_storage_path)),
                                URL_EXPIRES_IN)
              IN IF url = NULL THEN [code |-> 500, url |-> NULL]
                 ELSE [code |-> 200, url |-> url]

get_download_url(u, job_id) ==
    /\ resp' = [user |-> u, job |-> job_id,
                code |-> Answer(u, job_id).code, url |-> Answer(u, job_id).url]
    /\ UNCHANGED <<subs, jobs, req, task, blobs, now, backend, used0, starts, crashes,
                   temps, call, payloads, served, run>>

\* ---------------------------------------------------------- serve_local_file
\* Path(path).exists(): a file the local backend or a worker wrote
FileExists(path) == path \in blobs /\ path[1] = "local"

\* the paths asked for: every stored output and a name nothing was written to
ServePaths == blobs \cup {<<backend, 1, 0>>}

\* select(ConversionJob).where(output_storage_path == path, user_id == current_user.id)
OwnsPath(u, path) ==
    \E j \in JobIds :
        /\ RowExists(j)
        /\ jobs[j].output_storage_path = Some(path)
        /\ jobs[j].user_id = u

\* 403 without a job of the user at that path, 404 without the file, else
\* the file is sent
serve_local_file(u, path) ==
    /\ served' = [user |-> u, path |-> path,
                  code |-> IF ~OwnsPath(u, path) THEN 403
                           ELSE IF ~FileExists(path) THEN 404
                           ELSE 200]
    /\ UNCHANGED <<subs, jobs, req, task, blobs, now, backend, used0, starts, crashes,
                   temps, resp, call, payloads, run>>

\* One accepted job of alice with a plain input, the worker, the cleanup and
\* download requests of every user for the job's id and for an unknown id.
InitDownload ==
    /\ InitWorker
    /\ \E p \in PlainInputPaths(backend) : jobs[1].input_storage_path = Some(p)

NextDownload ==
    \/ \E j \in JobIds : convert_start(j)
    \/ \E j \in JobIds : convert_finish(j)
    \/ \E j \in JobIds, msg \in ExceptionMessages, st \in ProcessorStages :
         convert_error(j, msg, st, FALSE)
    \/ \E j \in JobIds, st \in ProcessorStages : convert_soft_timeout(j, st, FALSE)
    \/ \E j \in JobIds, st \in ProcessorStages : worker_lost(j, st, FALSE)
    \/ cleanup_expired_files
    \/ Tick
    \/ \E u \in Users, job_id \in JobIds : get_download_url(u, job_id)
    \/ \E u \in Users, path \in ServePaths : serve_local_file(u, path)

SpecDownload == InitDownload /\ [][NextDownload]_vars

\* ------------------------------------------------------------ get_url alone
\* Paths handed to get_url: with or without the s3:// scheme, then up to
\* MaxPathLen characters
PathChars == {"a", "/", "."}
RECURSIVE PathBodies(_)
PathBodies(n) ==
    IF n = 0 THEN {<<>>}
    ELSE PathBodies(n - 1) \cup
         {Append(b, c) : b \in {x \in PathBodies(n - 1) : Len(x) = n - 1}, c \in PathChars}
ProbePaths ==
    {scheme \o body : scheme \in {<<>>, STR_s3}, body \in PathBodies(MaxPathLen) \ {<<>>}}

storage_get_url(storage_path) ==
    /\ call' = [backend |-> backend, path |-> storage_path,
                url |-> GetUrl(backend, storage_path, URL_EXPIRES_IN)]
    /\ UNCHANGED <<subs, jobs, req, task, blobs, now, backend, used0, starts, crashes,
                   temps, resp, payloads, served, run>>

NextStorage == \E storage_path \in ProbePaths : storage_get_url(storage_path)

SpecStorage == Init /\ [][NextStorage]_vars

\* ------------------------------------------------------- GeometryCleaner
\* A geometry is None ("null"), a valid empty geometry, one of two valid
\* shapes, or invalid: make_valid turns "bad_a" into shape "a", "bad_empty"
\* into an empty geometry, and raises on "bad_raise".
Geometries == {"null", "empty", "a", "b", "bad_a", "bad_empty", "bad_raise"}
Datasets == UNION {[1..n -> Geometries] : n \in 0..MaxRows}

\* gdf.geometry.isna()
IsNa(geom) == geom = "null"
NotNa(geom) == ~IsNa(geom)
\* shapely.is_empty, shapely.is_valid (an empty geometry is valid)
is_empty(geom) == geom = "empty"
is_valid(geom) == geom \in {"empty", "a", "b"}
NotValid(geom) == ~is_valid(geom)
\* shapely.make_valid, for the geometries it returns on
make_valid(geom) == IF geom = "bad_a" THEN "a" ELSE "empty"

\* fix_geometry: None for a null or empty geometry, the geometry itself when
\* valid, else make_valid, with None for an empty result or an exception
fix_geometry(geom) ==
    IF IsNa(geom) \/ is_empty(geom) THEN "null"
    ELSE IF is_valid(geom) THEN geom
    ELSE IF geom = "bad_raise" THEN "null"
    ELSE IF is_empty(make_valid(geom)) THEN "null"
    ELSE make_valid(geom)

\* gdf.geometry.isna() | gdf.geometry.apply(is_empty)
EmptyMask(geom) == IsNa(geom) \/ is_empty(geom)
NotEmptyMask(geom) == ~EmptyMask(geom)

\* gdf.drop_duplicates(subset=["geometry"]): the first of equal rows is kept
RECURSIVE drop_duplicates(_)
drop_duplicates(rows) ==
    IF rows = <<>> THEN <<>>
    ELSE LET front == drop_duplicates(SubSeq(rows, 1, Len(rows) - 1))
             last == rows[Len(rows)]
         IN IF \E i \in 1..Len(front) : front[i] = last THEN front
            ELSE Append(front, last)

\* stats["duplicates_removed"] = before_dedup - len(gdf)
DuplicatesRemoved_Swapped(before_dedup, after_dedup) == after_dedup - before_dedup
DuplicatesRemoved(before_dedup, after_dedup) == before_dedup - after_dedup

\* GeometryCleaner.clean: the cleaned rows and the statistics
Clean(gdf) ==
    LET not_null == SelectSeq(gdf, NotNa)
        null_geometry == Len(gdf) - Len(not_null)
        invalid_before == Len(SelectSeq(not_null, NotValid))
        fixed_rows == [i \in 1..Len(not_null) |-> fix_geometry(not_null[i])]
        empty_after_fix == Len(SelectSeq(fixed_rows, EmptyMask))
        kept == SelectSeq(fixed_rows, NotEmptyMask)
        deduped == drop_duplicates(kept)
    IN IF not_null = <<>>
       THEN [rows |-> <<>>,
             stats |-> [total_input |-> Len(gdf), null_geometry |-> null_geometry,
                        invalid_before |-> 0, fixed |-> 0, unfixable |-> 0,
                        empty_after_fix |-> 0, duplicates_removed |-> 0,
                        total_output |-> 0]]
       ELSE [rows |-> deduped,
             stats |-> [total_input |-> Len(gdf), null_geometry |-> null_geometry,
                        invalid_before |-> invalid_before,
                        fixed |-> invalid_before - empty_after_fix,
                        unfixable |-> empty_after_fix,
                        empty_after_fix |-> empty_after_fix,
                        duplicates_removed |->
                            DuplicatesRemoved(Len(kept), Len(deduped)),
                        total_output |-> Len(deduped)]]

\* one run of the cleaner on a dataset
clean(gdf) ==
    /\ run = NoRun
    /\ run' = [component |-> "clean", input |-> gdf,
               rows |-> Clean(gdf).rows, stats |-> Clean(gdf).stats]
    /\ UNCHANGED <<subs, jobs, req, task, blobs, now, backend, used0, starts, crashes,
                   temps, resp, call, payloads, served>>

NextCleaner == \E gdf \in Datasets : clean(gdf)

SpecCleaner == Init /\ [][NextCleaner]_vars

\* --------------------------------------------------- AttributeNormalizer
LowerChars == {LOWER[i] : i \in 1..Len(LOWER)}
UpperChars == {UPPER[i] : i \in 1..Len(UPPER)}
DigitChars == {"0", "1", "2", "3", "4", "5", "6", "7", "8", "9"}
\* name[:10] for ESRI Shapefile (DBF field names)
DBF_NAME_MAX == 10

\* unicodedata.normalize("NFKD", name).encode("ascii", "ignore").decode():
\* an accented letter keeps its base letter, any other non-ASCII character
\* is dropped
AsciiOf(c) ==
    IF c = "é" THEN <<"e">>
    ELSE IF c \in LowerChars \cup UpperChars \cup DigitChars \cup {"_", " ", "-"}
    THEN <<c>>
    ELSE <<>>
RECURSIVE ToAscii(_)
ToAscii(name) ==
    IF name = <<>> THEN <<>> ELSE AsciiOf(Head(name)) \o ToAscii(Tail(name))

\* str.strip(chars): leading and trailing characters of the set removed
RECURSIVE StripLeft(_, _)
StripLeft(name, chars) ==
    IF name # <<>> /\ Head(name) \in chars THEN StripLeft(Tail(name), chars) ELSE name
RECURSIVE StripRight(_, _)
StripRight(name, chars) ==
    IF name # <<>> /\ name[Len(name)] \in chars
    THEN StripRight(SubSeq(name, 1, Len(name) - 1), chars) ELSE name
Strip(name, chars) == StripRight(StripLeft(name, chars), chars)

\* re.sub(r"[^a-zA-Z0-9_]", "_", name)
SubNonWord(name) ==
    [i \in 1..Len(name) |->
        IF name[i] \in LowerChars \cup UpperChars \cup DigitChars \cup {"_"}
        THEN name[i] ELSE "_"]

\* re.sub(r"_+", "_", name)
RECURSIVE SquashUnderscores(_)
SquashUnderscores(name) ==
    IF Len(name) < 1 + 1 THEN name
    ELSE IF name[1] = "_" /\ name[1 + 1] = "_" THEN SquashUnderscores(Tail(name))
    ELSE <<Head(name)>> \o SquashUnderscores(Tail(name))

STR_col == <<"c","o","l">>
STR_col_ == <<"c","o","l","_">>

\* AttributeNormalizer._clean_column_name
_clean_column_name(name, target_format) ==
    LET ascii == ToAscii(name)
        word == SubNonWord(Strip(Lower(ascii), {" "}))
        squashed == Strip(SquashUnderscores(word), {"_"})
        prefixed == IF squashed # <<>> /\ squashed[1] \in DigitChars
                    THEN STR_col_ \o squashed ELSE squashed
        cut == IF target_format = "ESRI Shapefile"
               THEN Truncate(prefixed, DBF_NAME_MAX) ELSE prefixed
    IN IF cut = <<>> THEN STR_col ELSE cut

\* f"{new}_{seen[new]}"
Suffixed(new, n) == new \o <<"_", DIGITS[n]>>

\* The loop over rename_map: the k-th column gets its clean name, with _N
\* when N earlier renamed columns have the same clean name.  Columns whose
\* clean name equals their name are not in rename_map.
FinalName(columns, k, target_format) ==
    LET cleaned == _clean_column_name(columns[k], target_format)
        earlier == {i \in 1..(k - 1) :
                      /\ _clean_column_name(columns[i], target_format) # columns[i]
                      /\ _clean_column_name(columns[i], target_format) = cleaned}
    IN IF cleaned = columns[k] THEN columns[k]
       ELSE IF earlier = {} THEN cleaned
       ELSE Suffixed(cleaned, Cardinality(earlier))

\* GHOST_COLUMNS
GHOST_COLUMNS ==
    {<<"f","i","d">>, <<"o","b","j","e","c","t","i","d">>,
     <<"s","h","a","p","e","_","a","r","e","a">>,
     <<"s","h","a","p","e","_","l","e","n","g","t","h">>,
     <<"s","h","a","p","e","_","l","e","n","g">>}
NotGhost(name) == Lower(name) \notin GHOST_COLUMNS

HasDuplicates(names) ==
    \E i, k \in 1..Len(names) : i # k /\ names[i] = names[k]

\* AttributeNormalizer.normalize, for the column names: rename, drop the
\* ghost columns, then the loops over gdf[col]; with two columns of one name
\* gdf[col] is a DataFrame and series.dtype raises AttributeError
Normalize(columns, target_format) ==
    LET renamed == [k \in 1..Len(columns) |-> FinalName(columns, k, target_format)]
        kept == SelectSeq(renamed, NotGhost)
    IN IF HasDuplicates(kept)
       THEN [outcome |-> "raised", columns |-> <<>>]
       ELSE [outcome |-> "returned", columns |-> kept]

\* column names of the input dataset
ColumnNames ==
    {<<"N","a","m","e">>, <<"n","a","m","e">>, <<"a"," ","b">>, <<"a","-","b">>,
     <<"a","_","b","_","1">>, <<"1","x">>, <<"é","€">>, <<"_">>, <<"F","I","D">>,
     <<"a","b","c","d","e","f","g","h","i","j","k">>,
     <<"a","b","c","d","e","f","g","h","i","j","k","l">>}
ColumnLists ==
    {cols \in UNION {[1..n -> ColumnNames] : n \in 1..MaxCols} : ~HasDuplicates(cols)}

\* one run of the normalizer on a dataset with these columns
normalize(columns, target_format) ==
    /\ run = NoRun
    /\ run' = [component |-> "normalize", input |-> columns,
               target_format |-> target_format,
               outcome |-> Normalize(columns, target_format).outcome,
               columns |-> Normalize(columns, target_format).columns]
    /\ UNCHANGED <<subs, jobs, req, task, blobs, now, backend, used0, starts, crashes,
                   temps, resp, call, payloads, served>>

NextNormalizer ==
    \E columns \in ColumnLists, target_format \in {"GeoJSON", "ESRI Shapefile"} :
        normalize(columns, target_format)

SpecNormalizer == Init /\ [][NextNormalizer]_vars

\* ------------------------------------------- GDALProcessor: reprojection
\* EPSG codes of KNOWN_CRS_BBOXES that ConversionRequest accepts as a target
EpsgCodes == {4326, 2154, 3857, 27700}
MaybeEpsg == {NULL} \cup {Some(c) : c \in EpsgCodes}

\* ProjectionDetector.reproject_geodataframe: the CRS is overridden with the
\* source when it is missing or different, then to_crs transforms to target
reproject_geodataframe(crs, source_epsg, target_epsg) ==
    LET declared == IF crs = NULL THEN Some(source_epsg)
                    ELSE IF Val(crs) # source_epsg THEN Some(source_epsg)
                    ELSE crs
    IN [crs |-> Some(target_epsg), transformed |-> TRUE, from |-> declared]

\* Step 6 of GDALProcessor.process: crs is gdf.crs as read from the file,
\* source_epsg the detected one, target_epsg the requested one
ReprojectionStep(crs, source_epsg, target_epsg) ==
    IF target_epsg # NULL /\ source_epsg # NULL /\ target_epsg # source_epsg
    THEN LET out == reproject_geodataframe(crs, Val(source_epsg), Val(target_epsg))
         IN [crs |-> out.crs, transformed |-> out.transformed,
             effective_target_epsg |-> target_epsg]
    ELSE IF source_epsg # NULL /\ target_epsg = NULL
    THEN [crs |-> IF crs = NULL THEN source_epsg ELSE crs,
          transformed |-> FALSE,
          effective_target_epsg |-> source_epsg]
    ELSE [crs |-> crs, transformed |-> FALSE,
          effective_target_epsg |-> target_epsg]

\* one run of the step; the dataset is then written with the resulting CRS
reproject(crs, source_epsg, target_epsg) ==
    /\ run = NoRun
    /\ run' = [component |-> "reproject", gdf_crs |-> crs,
               source_epsg |-> source_epsg, target_epsg |-> target_epsg,
               written_crs |-> ReprojectionStep(crs, source_epsg, target_epsg).crs,
               transformed |->
                   ReprojectionStep(crs, source_epsg, target_epsg).transformed,
               effective_target_epsg |->
                   ReprojectionStep(crs, source_epsg, target_epsg).effective_target_epsg]
    /\ UNCHANGED <<subs, jobs, req, task, blobs, now, backend, used0, starts, crashes,
                   temps, resp, call, payloads, served>>

NextReproject ==
    \E crs \in MaybeEpsg, source_epsg \in MaybeEpsg, target_epsg \in MaybeEpsg :
        reproject(crs, source_epsg, target_epsg)

SpecReproject == Init /\ [][NextReproject]_vars

\* ================================================================= claims
RowsOf(u) == {j \in JobIds : RowExists(j) /\ jobs[j].user_id = u}
FiniteLimit(u) == PlanLimit(subs[u].plan) # UNLIMITED
Terminal == {"success", "failed", "expired"}
\* the edges of the job state machine, and the insert of a new row
AllowedEdges ==
    {<<"absent", "pending">>, <<"pending", "processing">>,
     <<"processing", "success">>, <<"processing", "failed">>,
     <<"success", "expired">>}
\* "connection" or "timeout" somewhere in the message, in any case
STR_connection == <<"c","o","n","n","e","c","t","i","o","n">>
MentionsTransient(msg) ==
    Contains(STR_connection, Lower(msg)) \/ Contains(STR_timeout, Lower(msg))

\* C1: a job's status changes only along pending -> processing,
\* processing -> success, processing -> failed and success -> expired (a
\* new row starts pending); no step sets a failed, success or expired job
\* back to processing.
C1_OnlySpecEdges ==
    [][\A j \in JobIds :
         jobs'[j].status # jobs[j].status
           => <<jobs[j].status, jobs'[j].status>> \in AllowedEdges]_vars

\* C2: for a user with a finite plan limit L, the jobs created in the
\* period (those before the start, counted by the counter, and the rows
\* committed since) never exceed L.
C2_QuotaNeverExceeded ==
    \A u \in DOMAIN subs :
        FiniteLimit(u)
          => used0[u] + Cardinality(RowsOf(u)) <= PlanLimit(subs[u].plan)

\* C3: conversions_used_this_month has grown by exactly the number of job
\* rows committed for the user.
C3_CounterMatchesRows ==
    \A u \in DOMAIN subs :
        subs[u].conversions_used_this_month - used0[u] = Cardinality(RowsOf(u))

\* C4: a submit of a user whose counter has reached a finite plan limit
\* is refused (429): it creates no job row, leaves the counter unchanged
\* and enqueues no message, then and ever after.
C4_RefusedAtLimit ==
    [][\A r \in Requests :
         /\ ( /\ req[r].pc = "idle"
              /\ req'[r].pc # "idle"
              /\ req'[r].user \in DOMAIN subs
              /\ FiniteLimit(req'[r].user)
              /\ subs[req'[r].user].conversions_used_this_month
                   >= PlanLimit(subs[req'[r].user].plan) )
            => /\ req'[r].pc = "http429"
               /\ jobs' = jobs
               /\ subs' = subs
               /\ task' = task
         /\ req[r].pc = "http429"
            => /\ req'[r].pc = "http429"
               /\ jobs'[r].status = "absent"
               /\ task'[r].state = "none"]_vars
C4_Witness ==
    \E r \in Requests :
        /\ req[r].pc = "http429"
        /\ req[r].user = "alice"
        /\ subs["alice"].conversions_used_this_month = FREE_LIMIT

\* C5: started_at is null if and only if the job is pending.
C5_StartedIffNotPending ==
    \A j \in JobIds :
        RowExists(j) => (jobs[j].started_at = NULL <=> jobs[j].status = "pending")
C5_Witness ==
    \E j, k \in JobIds :
        /\ jobs[j].status = "processing" /\ jobs[j].started_at # NULL
        /\ jobs[k].status = "pending" /\ jobs[k].started_at = NULL

\* C6: completed_at is set if and only if the status is success, failed
\* or expired; a processing job has completed_at null.
C6_CompletedIffTerminal ==
    \A j \in JobIds :
        RowExists(j) => (jobs[j].completed_at # NULL <=> jobs[j].status \in Terminal)

\* C7: a success job has download_expires_at set, strictly later than
\* completed_at and equal to completed_at + 24 h.
C7_ExpiryIsCompletedPlusTTL ==
    \A j \in JobIds :
        jobs[j].status = "success"
          => /\ jobs[j].download_expires_at # NULL
             /\ Val(jobs[j].download_expires_at) > Val(jobs[j].completed_at)
             /\ Val(jobs[j].download_expires_at)
                  = Val(jobs[j].completed_at) + DOWNLOAD_TTL

\* C8: a success job has an output path that names an existing blob (from
\* the success commit on), and the blob is only given up (the job expired)
\* after download_expires_at.
C8_SuccessBlobReadable ==
    \A j \in JobIds :
        /\ jobs[j].status = "success"
             => /\ jobs[j].output_storage_path # NULL
                /\ Val(jobs[j].output_storage_path) \in blobs
        /\ jobs[j].status = "expired"
             => /\ jobs[j].download_expires_at # NULL
                /\ Val(jobs[j].download_expires_at) < now
C8_Witness ==
    \E j \in JobIds :
        /\ jobs[j].status = "success"
        /\ Val(jobs[j].output_storage_path) \in blobs
        /\ now >= Val(jobs[j].download_expires_at)

\* C9: a cleanup run at time now touches exactly the success jobs with a
\* path and download_expires_at < now: each becomes expired with a null
\* path and its blob gone, or (delete failed) stays as it was with its
\* blob; every other job and blob is unchanged.
C9_CleanupFrame ==
    [][cleanup_expired_files =>
         /\ \A j \in JobIds :
              IF /\ jobs[j].status = "success"
                 /\ jobs[j].output_storage_path # NULL
                 /\ jobs[j].download_expires_at # NULL
                 /\ Val(jobs[j].download_expires_at) < now
              THEN \/ /\ jobs'[j] = [jobs[j] EXCEPT !.status = "expired",
                                                    !.output_storage_path = NULL]
                      /\ Val(jobs[j].output_storage_path) \notin blobs'
                   \/ /\ jobs'[j] = jobs[j]
                      /\ Val(jobs[j].output_storage_path) \in blobs'
              ELSE jobs'[j] = jobs[j]
         /\ \A b \in blobs :
              b \notin blobs' => \E j \in JobIds : jobs[j].output_storage_path = Some(b)
         /\ blobs' \subseteq blobs]_vars
C9_Witness ==
    \E j, k \in JobIds :
        /\ jobs[j].status = "expired"
        /\ jobs[j].output_storage_path = NULL
        /\ \A b \in blobs : b[2] # j
        /\ jobs[k].status = "success"
        /\ Val(jobs[k].download_expires_at) < now

\* C10: the retry mechanism executes a job at most three times (the first
\* attempt and at most 2 retries); a retry is scheduled only after a
\* failure whose message contains "connection" or "timeout" (in any
\* case); after any other failure the message is consumed, and a consumed
\* failed job stays failed and is not executed again.
C10_BoundedRetries ==
    [][\A j \in JobIds :
         /\ starts'[j] - crashes'[j] <= 1 + 2
         /\ task'[j].retries > task[j].retries
            => /\ jobs'[j].status = "failed"
               /\ MentionsTransient(Val(jobs'[j].error_message))
               /\ task'[j].retries = task[j].retries + 1
         /\ ( /\ task[j].state = "running"
              /\ jobs'[j].status = "failed"
              /\ ~MentionsTransient(Val(jobs'[j].error_message)) )
            => task'[j].state = "done"
         /\ task[j].state = "done"
            => /\ task'[j] = task[j]
               /\ starts'[j] = starts[j]
               /\ jobs[j].status = "failed" => jobs'[j].status = "failed"]_vars
C10_Witness ==
    \E j \in JobIds :
        /\ task[j].state = "done"
        /\ task[j].retries = 2
        /\ starts[j] - crashes[j] = 1 + 2
        /\ jobs[j].status = "failed"

\* --------------------------------------------------- convert_file, C11..C20
STR_Timeout == <<"T","i","m","e","o","u","t">>
BlobsOf(j, bs) == {b \in bs : b[2] = j}
\* an execution of convert_file that found its row leaves the task body
ExecutionEnds(j) ==
    /\ task[j].state = "running"
    /\ task'[j].state # "running"
    /\ crashes' = crashes

\* C11: when an execution exceeds the soft time limit the job goes from
\* processing to failed with a message containing "Timeout", its
\* output_storage_path stays null, no blob of the job is in the storage
\* backend, no retry is scheduled and the owner's counter is not changed.
C11_SoftTimeoutLeavesNothing ==
    [][\A j \in JobIds :
         (\E st \in Stages, wrote \in BOOLEAN : convert_soft_timeout(j, st, wrote))
         => /\ jobs[j].status = "processing"
            /\ jobs'[j].status = "failed"
            /\ Contains(STR_Timeout, Val(jobs'[j].error_message))
            /\ jobs'[j].output_storage_path = NULL
            /\ BlobsOf(j, blobs') = {}
            /\ task'[j].state = "done"
            /\ task'[j].retries = task[j].retries
            /\ subs' = subs]_vars

\* C12: however often convert_file runs for a job, the storage backend holds
\* at most one output blob of that job, and no step of a worker changes a
\* subscription's counter.
C12_OneBlobPerJob ==
    /\ [](\A j \in JobIds : Cardinality(BlobsOf(j, blobs)) <= 1)
    /\ [][(\A r \in Requests : req'[r] = req[r]) => subs' = subs]_vars

\* C13: a failing progress update (10 %, 30 %, 80 %) does not end the
\* execution and does not make the job failed: the job stays processing and
\* the task keeps running.
C13_ProgressIsBestEffort ==
    [][\A j \in JobIds :
         (\E msg \in ExceptionMessages, st \in ProgressStages, wrote \in BOOLEAN :
              convert_error(j, msg, st, wrote))
         => /\ jobs'[j].status = "processing"
            /\ task'[j].state = "running"]_vars

\* ----------------------------------------------------- download, C14..C17
Owns(u, job_id) == RowExists(job_id) /\ jobs[job_id].user_id = u
Foreign(u, job_id) == RowExists(job_id) /\ jobs[job_id].user_id # u

C15_OwnerChecksInOrder ==
    [][\A u \in Users, job_id \in JobIds :
         get_download_url(u, job_id) /\ Owns(u, job_id)
         => LET job == jobs[job_id] IN
            /\ resp'.code =
                 (IF job.status # "success" THEN 400
                  ELSE IF job.output_storage_path = NULL THEN 404
                  ELSE IF Val(job.download_expires_at) < now THEN 410
                  ELSE 200)
            /\ resp'.code = 200 <=> resp'.url # NULL
            /\ resp'.url # NULL
                 => /\ resp'.url =
                         GetUrl(backend, StoragePath(Val(job.output_storage_path)),
                                URL_EXPIRES_IN)
                    /\ job.status = "success"
                    /\ job.output_storage_path # NULL
                    /\ ~(Val(job.download_expires_at) < now)]_vars
\* the owner got a URL for a finished job whose expiry has not passed
C15_Witness ==
    /\ resp.job \in JobIds
    /\ Owns(resp.user, resp.job)
    /\ jobs[resp.job].status = "success"
    /\ resp.code = 200
    /\ resp.url # NULL

\* C16: the owner's download request for a job that succeeded and whose
\* download_expires_at has passed is answered 410, before and after
\* cleanup_expired_files has processed the job.
C16_ExpiredIsAlways410 ==
    [][\A u \in Users, job_id \in JobIds :
         /\ get_download_url(u, job_id)
         /\ Owns(u, job_id)
         /\ jobs[job_id].status \in {"success", "expired"}
         /\ jobs[job_id].download_expires_at # NULL
         /\ Val(jobs[job_id].download_expires_at) < now
         => resp'.code = 410]_vars

\* C17: get_url returns no URL for a path of the other backend: none from
\* the local backend for s3://..., none from the object store for a path
\* without the s3:// scheme.
C17_GetUrlRefusesOtherBackend ==
    /\ call.backend = "local" /\ StartsWith(STR_s3, call.path) => call.url = NULL
    /\ call.backend = "s3" /\ ~StartsWith(STR_s3, call.path) => call.url = NULL

\* C18: the message of a submitted job is acknowledged only after the job
\* reached success or failed (expired follows success).  An acknowledged
\* message is never delivered again, so a job that is pending or processing
\* with its message acknowledged stays there forever: the claim's "every
\* submitted job eventually reaches success or failed" needs this invariant.
C18_AckedOnlyWhenFinished ==
    \A j \in JobIds :
        RowExists(j) /\ task[j].state = "done" => jobs[j].status \in Terminal

\* C19: when an execution of convert_file has ended, by success or by any
\* failure, no extraction directory and no staged copy of the input made by
\* that execution is left on disk.
C19_NoTempLeftBehind ==
    [][\A j \in JobIds :
         ExecutionEnds(j)
         => \A t \in temps' : ~(t[2] = j /\ t[3] = starts[j])]_vars

\* C20 as stated: no error leaves convert_file, and every execution that
\* found its row ends with the row committed as success or failed.
C20_NoErrorLeavesTheTask ==
    [][\A j \in JobIds :
         ExecutionEnds(j)
         => /\ jobs'[j].status \in {"success", "failed"}
            /\ task'[j].outcome # "raised"]_vars

\* C20: every execution that found its row ends with the row committed as
\* success or failed, so none leaves the job processing; a transient error
\* still leaves convert_file (as a retry, or re-raised once the retries are
\* used up), and only after the row was committed as failed.
C20_RowCommittedBeforeExit ==
    [][\A j \in JobIds :
         ExecutionEnds(j)
         => /\ jobs'[j].status \in {"success", "failed"}
            /\ task'[j].outcome \in {"retry", "raised"} => jobs'[j].status = "failed"]_vars
\* the third transient failure was re-raised after the row was marked failed
C20_Witness ==
    \E j \in JobIds :
        /\ task[j].state = "done"
        /\ task[j].outcome = "raised"
        /\ task[j].retries = max_retries
        /\ jobs[j].status = "failed"

\* ------------------------------------------------ submit and worker, C25..C27
\* C25: the message of a job is enqueued only after the transaction that
\* inserts the job row has committed, so whenever a message of job j is on
\* the queue, running or consumed, the row of j is visible.
C25_EnqueuedAfterCommit ==
    \A j \in JobIds : task[j].state # "none" => RowExists(j)

\* C26: with either backend, an execution in which the processor returned a
\* result and the output was stored commits the job as success.
C26_StoredOutputMeansSuccess ==
    [][\A j \in JobIds : convert_finish(j) => jobs'[j].status = "success"]_vars

\* C27: a job whose status is success has a null error_message, also when
\* an earlier attempt of the same job had failed.
C27_SuccessHasNoError ==
    \A j \in JobIds : jobs[j].status = "success" => jobs[j].error_message = NULL

\* ------------------------------------------------------ submit, C21 and C29
\* what the claim calls a body that fails validation
FailsValidation(payload) ==
    \/ payload.output_format \notin VALID_FORMATS
    \/ payload.target_epsg # NULL
         /\ (Val(payload.target_epsg) < EPSG_MIN \/ Val(payload.target_epsg) > EPSG_MAX)
    \/ payload.encoding \notin {"UTF-8", "latin-1"}
    \/ payload.uploaded_by = "-"

\* C21: a submit whose body fails validation (format outside the supported
\* set, target_epsg outside 1024..32767, encoding other than UTF-8 or
\* latin-1, storage path that does not exist) is refused: no step of that
\* request creates a job row, changes a quota counter or enqueues a message.
C21_InvalidSubmitChangesNothing ==
    [][\A r \in Requests :
         FailsValidation(payloads[r]) /\ req'[r] # req[r]
         => /\ jobs' = jobs
            /\ subs' = subs
            /\ task' = task
            /\ req'[r].pc \notin {"checked", "dispatched", "accepted"}]_vars

\* C29: the input_storage_path of every job names a blob uploaded by the
\* job's owner: a submit naming a path another user uploaded gets no row.
C29_InputBelongsToOwner ==
    \A j \in JobIds :
        RowExists(j) => payloads[j].uploaded_by = jobs[j].user_id

\* ------------------------------------------------------------ download, C28
\* C28: no artifact is obtained after its job's download_expires_at: the
\* URL of the local backend is valid as long as serve_local_file sends the
\* file, so serve_local_file sends no file whose job is past its expiry,
\* whether or not the cleanup has run.
C28_NothingServedAfterExpiry ==
    [][\A u \in Users, path \in ServePaths :
         /\ serve_local_file(u, path)
         /\ \E j \in JobIds :
              /\ jobs[j].output_storage_path = Some(path)
              /\ jobs[j].download_expires_at # NULL
              /\ Val(jobs[j].download_expires_at) < now
         => served'.code # 200]_vars

\* ----------------------------------------------- GeometryCleaner, C22, C30
\* C22: for every run of the cleaner duplicates_removed + null_geometry +
\* unfixable + total_output = total_input, also on the early return when
\* every row has a null geometry; the output has no more rows than the input.
C22_CleanerAccountsForEveryRow ==
    run.component = "clean"
    => /\ run.stats.total_input = Len(run.input)
       /\ run.stats.total_output = Len(run.rows)
       /\ run.stats.duplicates_removed + run.stats.null_geometry
            + run.stats.unfixable + run.stats.total_output = run.stats.total_input
       /\ Len(run.rows) <= Len(run.input)
\* a run that dropped a null row, an unrepairable row and a duplicate
C22_Witness ==
    /\ run.component = "clean"
    /\ run.stats.null_geometry > 0
    /\ run.stats.unfixable > 0
    /\ run.stats.duplicates_removed > 0
    /\ run.stats.total_output > 0

\* C30: for every run of the cleaner 0 <= fixed <= invalid_before and
\* unfixable <= invalid_before: a valid but empty geometry is not counted as
\* unfixable and does not make fixed negative.
C30_FixedWithinInvalid ==
    run.component = "clean"
    => /\ 0 <= run.stats.fixed
       /\ run.stats.fixed <= run.stats.invalid_before
       /\ run.stats.unfixable <= run.stats.invalid_before

\* -------------------------------------------------- AttributeNormalizer, C23
\* ^[a-z_][a-z0-9_]*$
MatchesNameRegex(name) ==
    /\ name # <<>>
    /\ name[1] \in LowerChars \cup {"_"}
    /\ \A i \in 1..Len(name) : name[i] \in LowerChars \cup DigitChars \cup {"_"}

\* C23: the column names a run of the normalizer returns are pairwise
\* distinct, each matches ^[a-z_][a-z0-9_]*$, and each has at most 10
\* characters when the target format is ESRI Shapefile, also after a
\* collision suffix was appended.
C23_NamesCleanUniqueShort ==
    run.component = "normalize" /\ run.outcome = "returned"
    => /\ ~HasDuplicates(run.columns)
       /\ \A i \in 1..Len(run.columns) :
            /\ MatchesNameRegex(run.columns[i])
            /\ run.target_format = "ESRI Shapefile"
                 => Len(run.columns[i]) <= DBF_NAME_MAX

\* ------------------------------------------------------ reprojection, C24
\* C24: the reprojection step reprojects to the target when a target is
\* given and differs from the source; with no target and a known source it
\* pins the CRS to the source without transforming and reports the source;
\* with neither it reports no target; and in every case the effective target
\* EPSG it reports is the CRS of the written dataset.
C24_ReprojectionPolicy ==
    run.component = "reproject"
    => /\ (run.target_epsg # NULL /\ run.target_epsg # run.source_epsg)
            => run.written_crs = run.target_epsg
       /\ (run.target_epsg = NULL /\ run.source_epsg # NULL)
            => /\ ~run.transformed
               /\ run.effective_target_epsg = run.source_epsg
       /\ (run.target_epsg = NULL /\ run.source_epsg = NULL)
            => run.effective_target_epsg = NULL
       /\ run.effective_target_epsg = run.written_crs

====
